---- MODULE Spec2Model ----
(***************************************************************************)
(* Quiz analysis pipeline: DataLoader (src/src/data_loader.py),            *)
(* PerformanceAnalyzer and its report (src/scripts/analyze_results.py) and *)
(* the proficiency plots of QuizVisualizer                                 *)
(* (src/scripts/visualize_results.py).                                     *)
(*                                                                         *)
(* Numbers.  Python floats are modelled by exact rationals [n, d] in       *)
(* lowest terms with d > 0; round(x, k) is round-half-even on the          *)
(* rational.  A comparison difference also carries the direction in which  *)
(* the float subtraction misses the threshold (see SubDeviations).  Tables *)
(* (pandas DataFrames) are records [columns, rows] whose rows are          *)
(* functions from the header names to the cell values.                     *)
(***************************************************************************)
EXTENDS Integers, Sequences, FiniteSets, TLC

\* ------------------------------------------------------------------ bounds
MaxQuestions == 2
MaxRows == 2
MaxWorth == 1

\* Python's None, and the marker of a file that is not in the data directory.
None == [none |-> TRUE]
NoFile == [missing |-> TRUE]
\* A file of the data directory the run has not read yet.
Unread == [unread |-> TRUE]
\* The float nan: what pandas puts in an empty cell of a numeric column.
NaN == [nan |-> TRUE]

\* The largest worth of a question in the banks of the percentage runs.
MaxPoints == 3

\* ------------------------------------------------------------- rationals
Abs(x) == IF x < 0 THEN -x ELSE x

RECURSIVE Gcd(_, _)
Gcd(a, b) == IF b = 0 THEN a ELSE Gcd(b, a % b)

Rat(n, d) ==
    LET g == Gcd(Abs(n), Abs(d))
        s == IF d < 0 THEN -1 ELSE 1
    IN  [n |-> (s * n) \div g, d |-> (s * d) \div g]

Zero == [n |-> 0, d |-> 1]
RatInt(i) == [n |-> i, d |-> 1]
RatAdd(a, b) == Rat(a.n * b.d + b.n * a.d, a.d * b.d)
RatSub(a, b) == Rat(a.n * b.d - b.n * a.d, a.d * b.d)
RatMul(a, b) == Rat(a.n * b.n, a.d * b.d)
RatDivInt(a, k) == Rat(a.n, a.d * k)
RatAbs(a) == [n |-> Abs(a.n), d |-> a.d]
RatLt(a, b) == a.n * b.d < b.n * a.d
RatLe(a, b) == a.n * b.d <= b.n * a.d
RatMin(a, b) == IF RatLt(b, a) THEN b ELSE a
RatMax(a, b) == IF RatLt(a, b) THEN b ELSE a

RECURSIVE Pow10(_)
Pow10(k) == IF k = 0 THEN 1 ELSE 10 * Pow10(k - 1)

\* Variant: rounds to a whole number whatever the number of digits asked for.
Round_Whole(x, k) ==
    LET q == x.n \div x.d
        twice == 2 * (x.n - q * x.d)
        up == \/ twice > x.d
              \/ twice = x.d /\ q % 2 = 1
    IN  Rat(IF up THEN q + 1 ELSE q, 1)

\* round(x, k): the nearest multiple of 10^-k, ties to the even one.
Round(x, k) ==
    LET s == Pow10(k)
        num == x.n * s
        q == num \div x.d
        twice == 2 * (num - q * x.d)
        up == \/ twice > x.d
              \/ twice = x.d /\ q % 2 = 1
    IN  Rat(IF up THEN q + 1 ELSE q, s)

RECURSIVE RatSum(_)
RatSum(s) == IF s = <<>> THEN Zero ELSE RatAdd(Head(s), RatSum(Tail(s)))

RECURSIVE IntSum(_)
IntSum(s) == IF s = <<>> THEN 0 ELSE Head(s) + IntSum(Tail(s))

\* The accuracy threshold 0.1 of the comparison buckets.
Threshold == [n |-> 1, d |-> 10]

\* ------------------------------------------------------------ DataFrames
CanonicalNames == {"question", "category", "answer", "value", "date_time", "user_id"}

DefaultMappings == [k \in CanonicalNames |-> k]

\* df.rename(columns={v: k for k, v in column_mappings.items()})
RenamedHeader(h, mappings) ==
    IF \E k \in DOMAIN mappings : mappings[k] = h
    THEN CHOOSE k \in DOMAIN mappings : mappings[k] = h
    ELSE h

Rename(df, mappings) ==
    LET cols == {RenamedHeader(h, mappings) : h \in df.columns}
        Orig(c) == CHOOSE h \in df.columns : RenamedHeader(h, mappings) = c
    IN  [columns |-> cols,
         rows |-> [i \in DOMAIN df.rows |-> [c \in cols |-> df.rows[i][Orig(c)]]]]

\* ---------------------------------------------------------------- inputs
Texts == <<"t1", "t2", "t3", "t4">>
CategoryNames == <<"X", "Y", "Z", "W">>
UserNames == <<"u1", "u2", "u3", "u4">>
Answers == {"a", "A"}
CorrectAnswer == "a"
\* The cells of the rating columns, as the numbers pandas parsed.
Ratings == {[n |-> 0, d |-> 1], [n |-> 1, d |-> 1], [n |-> 9, d |-> 1], [n |-> 10, d |-> 1]}
\* A user id that never occurs in a results file.
Stranger == "nobody"

\* The actual header of a canonical column under a mapping.
Header(mappings, k) == mappings[k]

CustomMappings ==
    [DefaultMappings EXCEPT !["date_time"] = "ts", !["user_id"] = "uid",
                            !["category"] = "topic"]
MappingChoices == {DefaultMappings, CustomMappings}

Range(f) == {f[i] : i \in DOMAIN f}

\* questions.csv: k questions with distinct texts; the category labels are
\* introduced in order (the first question is in "X", the next in "X" or "Y", ...).
QuestionRow(m, i, cat, worth) ==
    (Header(m, "question") :> Texts[i]) @@ (Header(m, "category") :> cat)
    @@ (Header(m, "answer") :> CorrectAnswer) @@ (Header(m, "value") :> worth)

\* Labels are introduced in the order of `names`: a label occurs only after the
\* one before it (inputs that differ by a renaming of labels are enumerated once).
LabelsInOrder(labels, names) ==
    \A i \in DOMAIN labels :
        \E j \in 1..i : /\ labels[i] = names[j]
                        /\ j = 1 \/ \E h \in 1..(i - 1) : labels[h] = names[j - 1]

QuestionShapes ==
    UNION {{sh \in [cats : [1..n -> {CategoryNames[j] : j \in 1..n}],
                    worths : [1..n -> 0..MaxWorth]] : LabelsInOrder(sh.cats, CategoryNames)}
           : n \in 1..MaxQuestions}

QuestionFiles(m) ==
    {[columns |-> {Header(m, c) : c \in {"question", "category", "answer", "value"}},
      rows |-> [i \in DOMAIN sh.cats |-> QuestionRow(m, i, sh.cats[i], sh.worths[i])]]
        : sh \in QuestionShapes}

\* questions.csv with worths up to MaxPoints, for the percentage runs.
PointShapes ==
    UNION {{sh \in [cats : [1..n -> {CategoryNames[j] : j \in 1..n}],
                    worths : [1..n -> 0..MaxPoints]] : LabelsInOrder(sh.cats, CategoryNames)}
           : n \in 1..MaxQuestions}

PointQuestionFiles(m) ==
    {[columns |-> {Header(m, c) : c \in {"question", "category", "answer", "value"}},
      rows |-> [i \in DOMAIN sh.cats |-> QuestionRow(m, i, sh.cats[i], sh.worths[i])]]
        : sh \in PointShapes}

\* The float nan in an empty cell of the category column, which holds texts
\* otherwise.  Dictionaries and sets find a nan key by identity, and whether two
\* empty cells hold one nan object or two is left open: "nan#1" and "nan#2" are
\* two nan objects, and none of them is a text a file can hold.
NaNCategories == {"nan#1", "nan#2"}

\* questions.csv with an empty category cell: questions of category "X" or of no
\* category, the second nan object only after the first.
BlankQuestionShapes ==
    UNION {{sh \in [cats : [1..n -> {CategoryNames[1]} \cup NaNCategories],
                    worths : [1..n -> 0..MaxWorth]] :
                /\ \E i \in 1..n : sh.cats[i] \in NaNCategories
                /\ \A i \in 1..n : sh.cats[i] = "nan#2" =>
                                       \E h \in 1..(i - 1) : sh.cats[h] = "nan#1"}
           : n \in 1..MaxQuestions}

BlankQuestionFiles(m) ==
    {[columns |-> {Header(m, c) : c \in {"question", "category", "answer", "value"}},
      rows |-> [i \in DOMAIN sh.cats |-> QuestionRow(m, i, sh.cats[i], sh.worths[i])]]
        : sh \in BlankQuestionShapes}

\* results.csv for a question bank: the required headers, a column for some of
\* the question texts, and up to MaxRows rows.
RequiredCols == <<"date_time", "user_id">>

TableRow(m, cols, uid, ts, cells) ==
    [c \in cols |-> IF c = Header(m, "user_id") THEN uid
                    ELSE IF c = Header(m, "date_time") THEN ts
                    ELSE cells[c]]

TextsOf(qfile, m) == {qfile.rows[i][Header(m, "question")] : i \in DOMAIN qfile.rows}
CategoriesOf(qfile, m) == {qfile.rows[i][Header(m, "category")] : i \in DOMAIN qfile.rows}
AllRequired(m) == {Header(m, k) : k \in Range(RequiredCols)}

ResultShapes(T) ==
    UNION {{sh \in [uids : [1..n -> {UserNames[j] : j \in 1..n}],
                    cells : [1..n -> [T -> Answers]]] : LabelsInOrder(sh.uids, UserNames)}
           : n \in 0..MaxRows}

GoodResultFiles(m, qfile) ==
    UNION {{[columns |-> AllRequired(m) \cup T,
             rows |-> [i \in DOMAIN sh.uids |->
                          TableRow(m, AllRequired(m) \cup T, sh.uids[i], i, sh.cells[i])]]
              : sh \in ResultShapes(T)}
           : T \in SUBSET TextsOf(qfile, m)}

\* A table that lacks a required header: one row, the rest of the header whole.
BadHeaderFiles(m, others, cell) ==
    {[columns |-> R \cup others,
      rows |-> <<TableRow(m, R \cup others, UserNames[1], 1, [c \in others |-> cell])>>]
        : R \in (SUBSET AllRequired(m)) \ {AllRequired(m)}}

ResultFiles(m, qfile) ==
    GoodResultFiles(m, qfile) \cup BadHeaderFiles(m, TextsOf(qfile, m), CorrectAnswer)

\* self_assessment.csv: absent, or the required headers, a column for some of the
\* bank's categories, and at most one row for each of up to MaxRows users: users of
\* the results file, in their order, and last a user the results file does not have.
\* The first row rates every category on its own; a later row gives one rating to
\* all categories, and the stranger's row holds 10 throughout.
UsersOf(rfile, m) ==
    IF Header(m, "user_id") \in rfile.columns
    THEN {rfile.rows[i][Header(m, "user_id")] : i \in DOMAIN rfile.rows}
    ELSE {}

UserIndex(u) == IF u = Stranger THEN Len(UserNames) + 1
                ELSE CHOOSE j \in DOMAIN UserNames : UserNames[j] = u

\* The users in the order the loader met them (the order of their names).
OrderedUsers(S) ==
    LET n == Cardinality(S)
    IN  [i \in 1..n |->
            CHOOSE u \in S : Cardinality({v \in S : UserIndex(v) < UserIndex(u)}) = i - 1]

SelfAssessmentShapes(U, C) ==
    UNION {{sh \in [uids : [1..n -> U \cup {Stranger}],
                    cells : [1..n -> [C -> Ratings]]] :
                /\ \A i \in 1..(n - 1) : UserIndex(sh.uids[i]) < UserIndex(sh.uids[i + 1])
                /\ \A i \in 2..n : \A c, d \in C : sh.cells[i][c] = sh.cells[i][d]
                /\ \A i \in 1..n : sh.uids[i] = Stranger =>
                                       sh.cells[i] = [c \in C |-> [n |-> 10, d |-> 1]]}
           : n \in 0..MaxRows}

GoodSelfAssessmentFiles(m, qfile, rfile) ==
    UNION {{[columns |-> AllRequired(m) \cup C,
             rows |-> [i \in DOMAIN sh.uids |->
                          TableRow(m, AllRequired(m) \cup C, sh.uids[i], i, sh.cells[i])]]
              : sh \in SelfAssessmentShapes(UsersOf(rfile, m), C)}
           : C \in SUBSET CategoriesOf(qfile, m)}

SelfAssessmentFiles(m, qfile, rfile) ==
    {NoFile} \cup GoodSelfAssessmentFiles(m, qfile, rfile)
             \cup BadHeaderFiles(m, CategoriesOf(qfile, m), [n |-> 10, d |-> 1])

\* A column of self_assessment.csv that is no category of the bank.
ExtraColumn == CategoryNames[MaxQuestions + 2]

\* self_assessment.csv with an empty rating cell or a column that is no category:
\* a column for some of the bank's categories, possibly the extra column, and one
\* row for some of the users of the results file, every cell empty or 9.
BlankSelfAssessmentFiles(m, qfile, rfile) ==
    UNION {UNION {{[columns |-> AllRequired(m) \cup C,
                    rows |-> [i \in 1..Cardinality(U) |->
                                 TableRow(m, AllRequired(m) \cup C,
                                          OrderedUsers(U)[i], i,
                                          cells[OrderedUsers(U)[i]])]]
                     : cells \in {cs \in [U -> [C -> {NaN, [n |-> 9, d |-> 1]}]] :
                                     \/ \E u \in U : \E c \in C : cs[u][c] = NaN
                                     \/ ExtraColumn \in C}}
                  : U \in SUBSET UsersOf(rfile, m)}
           : C \in SUBSET ((CategoriesOf(qfile, m) \ NaNCategories) \cup {ExtraColumn})}

\* ----------------------------------------------------------------- state
VARIABLES
    column_mappings,      \* DataLoader.column_mappings
    questions_csv,        \* data_dir/questions.csv, Unread until it is read
    results_csv,          \* data_dir/results.csv, Unread until it is read
    self_assessment_csv,  \* data_dir/self_assessment.csv or NoFile, Unread until read
    pc,                   \* the step the run is at
    questions,            \* DataLoader.questions: Q<i> is questions[i]
    quiz_categories,      \* DataLoader.quiz_categories
    users,                \* DataLoader.users
    data,                 \* what load_all_data returned, None before
    analysis,             \* what analyze_user_performance returned, None before
    overall_stats,        \* what get_overall_statistics returned, None before
    raised,               \* the exception that ended the run, None if none
    table                 \* the rows generate_category_summary_table made, None before

vars == <<column_mappings, questions_csv, results_csv, self_assessment_csv, pc,
          questions, quiz_categories, users, data, analysis, overall_stats, raised,
          table>>

\* DataLoader.__init__ on a data directory: the files are fixed, and the model
\* learns what they hold when the loader reads them.
Init ==
    /\ column_mappings \in MappingChoices
    /\ questions_csv = Unread
    /\ results_csv = Unread
    /\ self_assessment_csv = Unread
    /\ pc = "load_questions"
    /\ questions = <<>>
    /\ quiz_categories = {}
    /\ users = <<>>
    /\ data = None
    /\ analysis = None
    /\ overall_stats = None
    /\ raised = None
    /\ table = None

\* What a read finds: the file read before, or any file of the input space.
\* Headers other than the canonical ones come with tables of at most one row.
Found(file, candidates) ==
    IF file # Unread THEN {file}
    ELSE {f \in candidates :
            column_mappings # DefaultMappings /\ f # NoFile => Len(f.rows) <= 1}

SetToSeq(S) ==
    LET n == Cardinality(S)
    IN  [i \in 1..n |-> CHOOSE x \in S : Cardinality({y \in S : y < x}) = i - 1]

\* ---------------------------------------------------------------- loader
LoadQuestions ==
    /\ pc = "load_questions"
    /\ \E f \in Found(questions_csv, QuestionFiles(column_mappings)) :
        LET df == Rename(f, column_mappings)
        IN  /\ questions_csv' = f
            /\ quiz_categories' = {df.rows[i]["category"] : i \in DOMAIN df.rows}
            /\ questions' = [i \in DOMAIN df.rows |->
                                [text |-> df.rows[i]["question"],
                                 category |-> df.rows[i]["category"],
                                 correct_answer |-> df.rows[i]["answer"],
                                 worth |-> df.rows[i]["value"]]]
    /\ pc' = "load_responses"
    /\ UNCHANGED <<table, column_mappings, results_csv, self_assessment_csv, users, data,
                   analysis, overall_stats, raised>>

\* Variant: as soon as one required column is missing the error lists them all.
MissingCols_AllRequired(df) ==
    IF \E col \in Range(RequiredCols) : col \notin df.columns THEN RequiredCols ELSE <<>>

\* missing_cols = [col for col in required_cols if col not in df.columns]
MissingCols(df) == SelectSeq(RequiredCols, LAMBDA col : col \notin df.columns)

MissingColumnsError(file, missing_cols) ==
    [type |-> "ValueError", file |-> file, missing_cols |-> missing_cols]

\* str.lower() on the answers of the input space.
Lower(answer) == IF answer = "A" THEN "a" ELSE answer

\* Variant: a correct answer earns one point more than the question is worth.
Response_Bonus(row, question, timestamp) ==
    LET answer == row[question.text]
        is_correct == answer = question.correct_answer
    IN  [timestamp |-> timestamp,
         answer |-> answer,
         is_correct |-> is_correct,
         points_earned |-> IF is_correct THEN question.worth + 1 ELSE 0,
         worth |-> question.worth]

\* Variant: the answer is compared after case folding.
Response_CaseFold(row, question, timestamp) ==
    LET answer == row[question.text]
        is_correct == Lower(answer) = Lower(question.correct_answer)
    IN  [timestamp |-> timestamp,
         answer |-> answer,
         is_correct |-> is_correct,
         points_earned |-> IF is_correct THEN question.worth ELSE 0,
         worth |-> question.worth]

\* The Response of one row to one question.
Response(row, question, timestamp) ==
    LET answer == row[question.text]
        is_correct == answer = question.correct_answer
    IN  [timestamp |-> timestamp,
         answer |-> answer,
         is_correct |-> is_correct,
         points_earned |-> IF is_correct THEN question.worth ELSE 0,
         worth |-> question.worth]

\* The body of `for _, row in df.iterrows()` in _load_responses, for the row.
LoadResponseRow(df, row, qs, us) ==
    LET user_id == row["user_id"]
        timestamp == row["date_time"]
        known == IF user_id \in DOMAIN us THEN us
                 ELSE us @@ (user_id :> [responses |-> <<>>, self_assessment |-> None])
        asked == {q_id \in DOMAIN qs : qs[q_id].text \in df.columns}
        old == known[user_id].responses
        responses == [q_id \in DOMAIN old \cup asked |->
                         IF q_id \in asked THEN Response(row, qs[q_id], timestamp)
                         ELSE old[q_id]]
    IN  [known EXCEPT ![user_id].responses = responses]

RECURSIVE LoadResponseRows(_, _, _, _)
LoadResponseRows(df, i, qs, us) ==
    IF i > Len(df.rows) THEN us
    ELSE LoadResponseRows(df, i + 1, qs, LoadResponseRow(df, df.rows[i], qs, us))

LoadResponses ==
    /\ pc = "load_responses"
    /\ \E f \in Found(results_csv, ResultFiles(column_mappings, questions_csv)) :
        LET df == Rename(f, column_mappings)
        IN  /\ results_csv' = f
            /\ IF MissingCols(df) # <<>>
               THEN /\ raised' = MissingColumnsError("results.csv", MissingCols(df))
                    /\ pc' = "aborted"
                    /\ users' = users
               ELSE /\ users' = LoadResponseRows(df, 1, questions, users)
                    /\ pc' = "load_self_assessment"
                    /\ raised' = raised
    /\ UNCHANGED <<table, column_mappings, questions_csv, self_assessment_csv, questions,
                   quiz_categories, data, analysis, overall_stats>>

\* float(row[category]): the number as a float, nan for nan.
ToFloat(cell) == IF cell = NaN THEN NaN ELSE Rat(cell.n, cell.d)

\* Variant: the rating is kept on its 0..10 scale.
FloatDivInt_Unscaled(x, k) == x

\* x / k on floats: nan / k is nan.
FloatDivInt(x, k) == IF x = NaN THEN NaN ELSE RatDivInt(x, k)

\* Variant: a row of a user the results file does not have creates the user.
LoadSelfAssessmentRow_CreatesUser(df, row, cats, us) ==
    LET user_id == row["user_id"]
        timestamp == row["date_time"]
        scores == [category \in cats \cap df.columns |-> ToFloat(row[category])]
        known == IF user_id \in DOMAIN us THEN us
                 ELSE us @@ (user_id :> [responses |-> <<>>, self_assessment |-> None])
    IN  [known EXCEPT ![user_id].self_assessment =
                          [timestamp |-> timestamp, scores |-> scores]]

\* Variant: every column but the required ones is taken for a rated category.
LoadSelfAssessmentRow_AllColumns(df, row, cats, us) ==
    LET user_id == row["user_id"]
        timestamp == row["date_time"]
        scores == [category \in df.columns \ Range(RequiredCols) |->
                      ToFloat(row[category])]
    IN  IF user_id \in DOMAIN us
        THEN [us EXCEPT ![user_id].self_assessment =
                            [timestamp |-> timestamp, scores |-> scores]]
        ELSE us

\* The body of `for _, row in df.iterrows()` in _load_self_assessment, for the row.
LoadSelfAssessmentRow(df, row, cats, us) ==
    LET user_id == row["user_id"]
        timestamp == row["date_time"]
        scores == [category \in cats \cap df.columns |-> ToFloat(row[category])]
    IN  IF user_id \in DOMAIN us
        THEN [us EXCEPT ![user_id].self_assessment =
                            [timestamp |-> timestamp, scores |-> scores]]
        ELSE us

RECURSIVE LoadSelfAssessmentRows(_, _, _, _)
LoadSelfAssessmentRows(df, i, cats, us) ==
    IF i > Len(df.rows) THEN us
    ELSE LoadSelfAssessmentRows(df, i + 1, cats,
                                LoadSelfAssessmentRow(df, df.rows[i], cats, us))

\* Variant: a table without a required column is passed over like a missing file.
ReadSelfAssessment_Tolerant(f, mappings, cats, us) ==
    IF f = NoFile
    THEN [users |-> us, raised |-> None]
    ELSE LET df == Rename(f, mappings)
         IN  IF MissingCols(df) # <<>>
             THEN [users |-> us, raised |-> None]
             ELSE [users |-> LoadSelfAssessmentRows(df, 1, cats, us), raised |-> None]

\* Variant: FileNotFoundError is not caught.
ReadSelfAssessment_FatalMissing(f, mappings, cats, us) ==
    IF f = NoFile
    THEN [users |-> us,
          raised |-> [type |-> "FileNotFoundError", file |-> "self_assessment.csv",
                      missing_cols |-> <<>>]]
    ELSE LET df == Rename(f, mappings)
         IN  IF MissingCols(df) # <<>>
             THEN [users |-> us,
                   raised |-> MissingColumnsError("self_assessment.csv", MissingCols(df))]
             ELSE [users |-> LoadSelfAssessmentRows(df, 1, cats, us), raised |-> None]

\* Variant: the self-assessment table is read under its actual headers.
ReadSelfAssessment_Unrenamed(f, mappings, cats, us) ==
    IF f = NoFile
    THEN [users |-> us, raised |-> None]
    ELSE IF MissingCols(f) # <<>>
         THEN [users |-> us,
               raised |-> MissingColumnsError("self_assessment.csv", MissingCols(f))]
         ELSE [users |-> LoadSelfAssessmentRows(f, 1, cats, us), raised |-> None]

\* _load_self_assessment on what the read found: the users it leaves and the
\* exception it raises, None if none.  Only FileNotFoundError is caught.
ReadSelfAssessment(f, mappings, cats, us) ==
    IF f = NoFile
    THEN [users |-> us, raised |-> None]
    ELSE LET df == Rename(f, mappings)
         IN  IF MissingCols(df) # <<>>
             THEN [users |-> us,
                   raised |-> MissingColumnsError("self_assessment.csv", MissingCols(df))]
             ELSE [users |-> LoadSelfAssessmentRows(df, 1, cats, us), raised |-> None]

LoadSelfAssessment ==
    /\ pc = "load_self_assessment"
    /\ \E f \in Found(self_assessment_csv,
                     SelfAssessmentFiles(column_mappings, questions_csv, results_csv)) :
        LET out == ReadSelfAssessment(f, column_mappings, quiz_categories, users)
        IN  /\ self_assessment_csv' = f
            /\ users' = out.users
            /\ raised' = out.raised
            /\ pc' = IF out.raised = None THEN "combine_data" ELSE "aborted"
    /\ UNCHANGED <<table, column_mappings, questions_csv, results_csv, questions,
                   quiz_categories, data, analysis, overall_stats>>

RECURSIVE SumOver(_, _)
SumOver(S, f) ==
    IF S = {} THEN 0
    ELSE LET x == CHOOSE y \in S : TRUE IN f[x] + SumOver(S \ {x}, f)

\* The categories of a user's responses, in the order the loop over the
\* responses (in question order) first meets them.
RECURSIVE CategoryOrder(_, _, _)
CategoryOrder(ids, qs, seen) ==
    IF ids = <<>> THEN seen
    ELSE LET category == qs[Head(ids)].category
         IN  CategoryOrder(Tail(ids), qs,
                           IF category \in Range(seen) THEN seen
                           ELSE Append(seen, category))

\* user_data.get("self_assessment") and user_data["self_assessment"].get("scores")
HasScores(user_data) ==
    /\ user_data.self_assessment # None
    /\ DOMAIN user_data.self_assessment.scores # {}

\* category_scores of one user; normalized_self_assessment is None where the
\* code leaves the key out.
CategoryScores(user_data, qs) ==
    LET responses == user_data.responses
        order == CategoryOrder(SetToSeq(DOMAIN responses), qs, <<>>)
    IN  [k \in DOMAIN order |->
            LET category == order[k]
                ids == {q_id \in DOMAIN responses : qs[q_id].category = category}
                points_earned == SumOver(ids, [q \in ids |-> responses[q].points_earned])
                points_possible == SumOver(ids, [q \in ids |-> responses[q].worth])
            IN  [category |-> category,
                 points_earned |-> points_earned,
                 points_possible |-> points_possible,
                 normalized_score |->
                     IF points_possible > 0 THEN Rat(points_earned, points_possible)
                     ELSE Zero,
                 normalized_self_assessment |->
                     IF /\ HasScores(user_data)
                        /\ category \in DOMAIN user_data.self_assessment.scores
                     THEN FloatDivInt(user_data.self_assessment.scores[category], 10)
                     ELSE None]]

\* Variant: the points possible are those of the whole question bank.
TotalScore_WholeBank(user_data) ==
    LET responses == user_data.responses
        ids == DOMAIN responses
        total_points == SumOver(ids, [q \in ids |-> responses[q].points_earned])
        total_possible == SumOver(DOMAIN questions,
                                  [q \in DOMAIN questions |-> questions[q].worth])
    IN  [points_earned |-> total_points,
         points_possible |-> total_possible,
         normalized_score |->
             IF total_possible > 0 THEN Rat(total_points, total_possible) ELSE Zero]

\* total_score of one user in _combine_data.
TotalScore(user_data) ==
    LET responses == user_data.responses
        ids == DOMAIN responses
        total_points == SumOver(ids, [q \in ids |-> responses[q].points_earned])
        total_possible == SumOver(ids, [q \in ids |-> responses[q].worth])
    IN  [points_earned |-> total_points,
         points_possible |-> total_possible,
         normalized_score |->
             IF total_possible > 0 THEN Rat(total_points, total_possible) ELSE Zero]

\* Variant: the total score of a user that already has one is added to it.
CombinedUser_Accumulating(user_data, qs) ==
    LET total == TotalScore(user_data)
        points_earned == IF "total_score" \in DOMAIN user_data
                         THEN user_data.total_score.points_earned + total.points_earned
                         ELSE total.points_earned
        points_possible == IF "total_score" \in DOMAIN user_data
                           THEN user_data.total_score.points_possible + total.points_possible
                           ELSE total.points_possible
    IN  [responses |-> user_data.responses,
         self_assessment |-> user_data.self_assessment,
         total_score |-> [points_earned |-> points_earned,
                          points_possible |-> points_possible,
                          normalized_score |->
                              IF points_possible > 0
                              THEN Rat(points_earned, points_possible) ELSE Zero],
         score |-> [by_category |-> CategoryScores(user_data, qs)]]

\* One user after the first loop of _combine_data.
CombinedUser(user_data, qs) ==
    [responses |-> user_data.responses,
     self_assessment |-> user_data.self_assessment,
     total_score |-> TotalScore(user_data),
     score |-> [by_category |-> CategoryScores(user_data, qs)]]

SelfAssessmentCategories(us) ==
    UNION {DOMAIN us[u].self_assessment.scores : u \in {v \in DOMAIN us : HasScores(us[v])}}

CategoriesMetadata(qs, us) ==
    [category \in {qs[i].category : i \in DOMAIN qs} |->
        LET ids == {i \in DOMAIN qs : qs[i].category = category}
            rated == category \in SelfAssessmentCategories(us)
        IN  [question_count |-> Cardinality(ids),
             total_points |-> SumOver(ids, [i \in ids |-> qs[i].worth]),
             has_self_assessment |-> rated,
             self_assessment_max |-> IF rated THEN 10 ELSE 0]]

\* Variant: the total counts the questions some user has a response for.
Metadata_Answered(qs, us) ==
    LET answered == {i \in DOMAIN qs : \E u \in DOMAIN us : i \in DOMAIN us[u].responses}
    IN  [total_questions |-> Len(qs),
         total_users |-> Cardinality(DOMAIN us),
         total_points_possible |-> SumOver(answered, [i \in answered |-> qs[i].worth]),
         categories |-> CategoriesMetadata(qs, us),
         self_assessment |-> [categories |-> SelfAssessmentCategories(us),
                              max_score |-> 10]]

\* metadata of the returned model.
Metadata(qs, us) ==
    [total_questions |-> Len(qs),
     total_users |-> Cardinality(DOMAIN us),
     total_points_possible |-> SumOver(DOMAIN qs, [i \in DOMAIN qs |-> qs[i].worth]),
     categories |-> CategoriesMetadata(qs, us),
     self_assessment |-> [categories |-> SelfAssessmentCategories(us), max_score |-> 10]]

CombineData ==
    /\ pc = "combine_data"
    /\ users' = [u \in DOMAIN users |-> CombinedUser(users[u], questions)]
    /\ data' = [questions |-> questions, users |-> users',
                metadata |-> Metadata(questions, users')]
    /\ pc' = "loaded"
    /\ UNCHANGED <<table, column_mappings, questions_csv, results_csv, self_assessment_csv,
                   questions, quiz_categories, analysis, overall_stats, raised>>

\* load_all_data as one call, on a loader whose users are us: the model it
\* returns, the exception it raises (None if none) and the users it leaves.
LoadAllData(mappings, qfile, rfile, sfile, us) ==
    LET qdf == Rename(qfile, mappings)
        qs == [i \in DOMAIN qdf.rows |->
                  [text |-> qdf.rows[i]["question"],
                   category |-> qdf.rows[i]["category"],
                   correct_answer |-> qdf.rows[i]["answer"],
                   worth |-> qdf.rows[i]["value"]]]
        cats == {qdf.rows[i]["category"] : i \in DOMAIN qdf.rows}
        rdf == Rename(rfile, mappings)
    IN  IF MissingCols(rdf) # <<>>
        THEN [data |-> None, users |-> us,
              raised |-> MissingColumnsError("results.csv", MissingCols(rdf))]
        ELSE LET out == ReadSelfAssessment(sfile, mappings, cats,
                                           LoadResponseRows(rdf, 1, qs, us))
                 combined == [u \in DOMAIN out.users |-> CombinedUser(out.users[u], qs)]
             IN  IF out.raised # None
                 THEN [data |-> None, users |-> out.users, raised |-> out.raised]
                 ELSE [data |-> [questions |-> qs, users |-> combined,
                                 metadata |-> Metadata(qs, combined)],
                       users |-> combined, raised |-> None]

\* A second load_all_data() on the loader that returned the model, the files of
\* the data directory being what they were: self.questions is emptied and
\* filled again, self.users is the dictionary the first call left.
LoadAgain ==
    /\ pc = "loaded"
    /\ LET again == LoadAllData(column_mappings, questions_csv, results_csv,
                                self_assessment_csv, users)
       IN  IF again.raised # None
           THEN /\ raised' = again.raised
                /\ pc' = "aborted"
                /\ users' = again.users
                /\ UNCHANGED <<questions, quiz_categories, data>>
           ELSE /\ questions' = again.data.questions
                /\ quiz_categories' = {again.data.questions[i].category :
                                          i \in DOMAIN again.data.questions}
                /\ users' = again.users
                /\ data' = again.data
                /\ pc' = "reloaded"
                /\ raised' = raised
    /\ UNCHANGED <<table, column_mappings, questions_csv, results_csv, self_assessment_csv,
                   analysis, overall_stats>>

\* -------------------------------------------------------------- analyzer
\* An exception that leaves a function of the scripts.
Fault(type, where) == [type |-> type, file |-> where, missing_cols |-> <<>>]

RECURSIVE IsqrtFrom(_, _)
IsqrtFrom(n, r) == IF (r + 1) * (r + 1) > n THEN r ELSE IsqrtFrom(n, r + 1)
Isqrt(n) == IsqrtFrom(n, 0)

\* The square root of a rational: exact when it is rational, else to 2 decimals.
RatSqrt(x) ==
    LET a == Isqrt(x.n)
        b == Isqrt(x.d)
    IN  IF a * a = x.n /\ b * b = x.d THEN Rat(a, b)
        ELSE Rat(Isqrt((x.n * Pow10(4)) \div x.d), Pow10(2))

\* np.std: the population standard deviation.
StdDev(xs) ==
    LET n == Len(xs)
        mean == RatDivInt(RatSum(xs), n)
        squares == [i \in DOMAIN xs |-> RatMul(RatSub(xs[i], mean), RatSub(xs[i], mean))]
    IN  RatSqrt(RatDivInt(RatSum(squares), n))

\* Variant: a user without comparison entries gets a record of zeros.
calculate_proficiency_score_zero(user_data) ==
    LET performance_score == user_data.total_score.percentage
        by_category == user_data.comparison.by_category
        differences == [i \in DOMAIN by_category |-> by_category[i].difference]
        avg_abs_diff == RatDivInt(RatSum([i \in DOMAIN differences |->
                                             RatAbs(differences[i])]),
                                  Len(differences))
        accuracy_score == RatMul(RatSub(RatInt(1), avg_abs_diff), RatInt(100))
        std_dev == IF Len(differences) > 1 THEN StdDev(differences) ELSE Zero
        consistency_score == RatMul(RatSub(RatInt(1), RatMin(std_dev, RatInt(1))),
                                    RatInt(100))
        proficiency_score == RatAdd(RatMul(Rat(60, 100), performance_score),
                                    RatAdd(RatMul(Rat(20, 100), accuracy_score),
                                           RatMul(Rat(20, 100), consistency_score)))
    IN  IF by_category # <<>>
        THEN [overall_proficiency |-> Round(proficiency_score, 1),
              performance_score |-> Round(performance_score, 1),
              accuracy_score |-> Round(accuracy_score, 1),
              consistency_score |-> Round(consistency_score, 1),
              differences |-> differences,
              std_dev |-> std_dev]
        ELSE [overall_proficiency |-> Zero,
              performance_score |-> Zero,
              accuracy_score |-> Zero,
              consistency_score |-> Zero,
              differences |-> <<>>,
              std_dev |-> Zero]

\* Variant: the quiz percentage weighs 0.50, accuracy and consistency 0.25 each.
calculate_proficiency_score_EqualWeights(user_data) ==
    LET performance_score == user_data.total_score.percentage
        by_category == user_data.comparison.by_category
        differences == [i \in DOMAIN by_category |-> by_category[i].difference]
        avg_abs_diff == RatDivInt(RatSum([i \in DOMAIN differences |->
                                             RatAbs(differences[i])]),
                                  Len(differences))
        accuracy_score == RatMul(RatSub(RatInt(1), avg_abs_diff), RatInt(100))
        std_dev == IF Len(differences) > 1 THEN StdDev(differences) ELSE Zero
        consistency_score == RatMul(RatSub(RatInt(1), RatMin(std_dev, RatInt(1))),
                                    RatInt(100))
        proficiency_score == RatAdd(RatMul(Rat(50, 100), performance_score),
                                    RatAdd(RatMul(Rat(25, 100), accuracy_score),
                                           RatMul(Rat(25, 100), consistency_score)))
    IN  IF by_category # <<>>
        THEN [overall_proficiency |-> Round(proficiency_score, 1),
              performance_score |-> Round(performance_score, 1),
              accuracy_score |-> Round(accuracy_score, 1),
              consistency_score |-> Round(consistency_score, 1),
              differences |-> differences,
              std_dev |-> std_dev]
        ELSE None

\* PerformanceAnalyzer.calculate_proficiency_score; None is the fall off the end.
calculate_proficiency_score(user_data) ==
    LET performance_score == user_data.total_score.percentage
        by_category == user_data.comparison.by_category
        differences == [i \in DOMAIN by_category |-> by_category[i].difference]
        avg_abs_diff == RatDivInt(RatSum([i \in DOMAIN differences |->
                                             RatAbs(differences[i])]),
                                  Len(differences))
        accuracy_score == RatMul(RatSub(RatInt(1), avg_abs_diff), RatInt(100))
        std_dev == IF Len(differences) > 1 THEN StdDev(differences) ELSE Zero
        consistency_score == RatMul(RatSub(RatInt(1), RatMin(std_dev, RatInt(1))),
                                    RatInt(100))
        proficiency_score == RatAdd(RatMul(Rat(60, 100), performance_score),
                                    RatAdd(RatMul(Rat(20, 100), accuracy_score),
                                           RatMul(Rat(20, 100), consistency_score)))
    IN  IF by_category # <<>>
        THEN [overall_proficiency |-> Round(proficiency_score, 1),
              performance_score |-> Round(performance_score, 1),
              accuracy_score |-> Round(accuracy_score, 1),
              consistency_score |-> Round(consistency_score, 1),
              differences |-> differences,
              std_dev |-> std_dev]
        ELSE None

\* Variant: the points possible of the category are not looked at.
Compared_AnyPossible(scores, self_assessed_categories) ==
    scores.category \in self_assessed_categories

\* `category in self.self_assessed_categories` and `scores["points_possible"] > 0`
Compared(scores, self_assessed_categories) ==
    /\ scores.category \in self_assessed_categories
    /\ scores.points_possible > 0

\* The exception the loop body of analyze_user_performance raises for a user, or
\* None: None["scores"] is a TypeError, a missing key a KeyError.
UserFault(user_data, self_assessed_categories) ==
    LET by_category == user_data.score.by_category
    IN  IF \E k \in DOMAIN by_category :
             /\ Compared(by_category[k], self_assessed_categories)
             /\ user_data.self_assessment = None
        THEN Fault("TypeError", "analyze_user_performance")
        ELSE IF \E k \in DOMAIN by_category :
                  /\ Compared(by_category[k], self_assessed_categories)
                  /\ by_category[k].normalized_self_assessment = None
             THEN Fault("KeyError", "analyze_user_performance")
             ELSE None

\* Float subtraction at the threshold.  quiz - self is computed in binary floating
\* point, and where the exact difference is 0.1 or -0.1 the computed one may be
\* the double of that value (dev 0) or a neighbour just below (-1) or above (1)
\* it: <<quiz.n, quiz.d, self * 10, dev>> for the quiz scores with denominator up
\* to 10.  Elsewhere the deviation cannot change a comparison and is left 0.
SubDeviations ==
    {<<0, 1, 1, 0>>, <<1, 1, 9, -1>>, <<1, 2, 4, -1>>, <<1, 2, 6, 1>>,
     <<1, 5, 1, 0>>, <<1, 5, 3, 1>>, <<2, 5, 3, 1>>, <<2, 5, 5, 1>>,
     <<3, 5, 5, -1>>, <<3, 5, 7, 1>>, <<4, 5, 7, 1>>, <<4, 5, 9, 1>>,
     <<1, 10, 0, 0>>, <<1, 10, 2, 0>>, <<3, 10, 2, -1>>, <<3, 10, 4, -1>>,
     <<7, 10, 6, -1>>, <<7, 10, 8, -1>>, <<9, 10, 8, -1>>, <<9, 10, 10, 1>>}

SubDeviation(a, b) ==
    LET hits == {t \in SubDeviations : t[1] = a.n /\ t[2] = a.d /\ t[3] * b.d = b.n * 10}
    IN  IF hits = {} THEN 0 ELSE (CHOOSE t \in hits : TRUE)[4]

\* scores["normalized_score"] - scores["normalized_self_assessment"]
FloatSub(a, b) ==
    LET x == RatSub(a, b) IN [n |-> x.n, d |-> x.d, dev |-> SubDeviation(a, b)]

\* abs(x), x < t and x > t for a computed difference x and a literal t.
FloatAbs(x) == [n |-> Abs(x.n), d |-> x.d, dev |-> IF x.n < 0 THEN -x.dev ELSE x.dev]
FloatLt(x, t) == RatLt(x, t) \/ (x.n * t.d = t.n * x.d /\ x.dev < 0)
FloatGt(x, t) == RatLt(t, x) \/ (x.n * t.d = t.n * x.d /\ x.dev > 0)

\* Variant: the threshold itself counts as accurate.
IsAccurate_Inclusive(c) == ~FloatGt(FloatAbs(c.difference), Threshold)

\* Variant: an entry without quiz points is never accurate.
IsAccurate_Earned(c) ==
    /\ RatLt(Zero, c.quiz_normalized)
    /\ FloatLt(FloatAbs(c.difference), Threshold)

\* The accuracy buckets of a comparison entry.
IsAccurate(c) == FloatLt(FloatAbs(c.difference), Threshold)
IsOverestimate(c) == FloatLt(c.difference, [n |-> -1, d |-> 10])
IsUnderestimate(c) == FloatGt(c.difference, Threshold)

\* user_analysis of one user, for a user the loop body raises nothing for.
UserAnalysis(user_data, metadata) ==
    LET sac == metadata.self_assessment.categories
        total_score == user_data.total_score
        answered == SelectSeq(user_data.score.by_category,
                              LAMBDA scores : scores.points_possible > 0)
        compared == SelectSeq(user_data.score.by_category,
                              LAMBDA scores : Compared(scores, sac))
        mc_scores == [i \in DOMAIN answered |->
                         [category |-> answered[i].category,
                          points |-> answered[i].points_earned,
                          possible |-> answered[i].points_possible,
                          percentage |-> Round(Rat(answered[i].points_earned * 100,
                                                   answered[i].points_possible), 1)]]
        self_scores == [i \in DOMAIN compared |->
                           [category |-> compared[i].category,
                            score |-> IF compared[i].category \in
                                            DOMAIN user_data.self_assessment.scores
                                      THEN user_data.self_assessment.scores[
                                               compared[i].category]
                                      ELSE Zero,
                            out_of |-> metadata.self_assessment.max_score]]
        comparisons == [i \in DOMAIN compared |->
                           [category |-> compared[i].category,
                            quiz_normalized |-> compared[i].normalized_score,
                            self_normalized |-> compared[i].normalized_self_assessment,
                            difference |-> FloatSub(compared[i].normalized_score,
                                                    compared[i].normalized_self_assessment)]]
        total_percentage == IF total_score.points_possible > 0
                            THEN Round(Rat(total_score.points_earned * 100,
                                           total_score.points_possible), 1)
                            ELSE Zero
        user_analysis ==
            [total_score |-> [points |-> total_score.points_earned,
                              possible |-> total_score.points_possible,
                              percentage |-> total_percentage],
             mc_quiz |-> [scores |-> mc_scores,
                          total_points |-> IntSum([i \in DOMAIN mc_scores |->
                                                      mc_scores[i].points]),
                          total_possible |-> IntSum([i \in DOMAIN mc_scores |->
                                                        mc_scores[i].possible])],
             self_assessment |->
                 [scores |-> self_scores,
                  average |-> IF self_scores # <<>>
                              THEN Round(RatDivInt(RatSum([i \in DOMAIN self_scores |->
                                                              self_scores[i].score]),
                                                   Len(self_scores)), 1)
                              ELSE Zero],
             comparison |->
                 [by_category |-> comparisons,
                  average_difference |->
                      IF comparisons # <<>>
                      THEN Round(RatDivInt(RatSum([i \in DOMAIN comparisons |->
                                                      comparisons[i].difference]),
                                           Len(comparisons)), 3)
                      ELSE Zero,
                  accurate_count |-> Len(SelectSeq(comparisons, IsAccurate)),
                  overestimate_count |-> Len(SelectSeq(comparisons, IsOverestimate)),
                  underestimate_count |-> Len(SelectSeq(comparisons, IsUnderestimate))]]
    IN  [total_score |-> user_analysis.total_score,
         mc_quiz |-> user_analysis.mc_quiz,
         self_assessment |-> user_analysis.self_assessment,
         comparison |-> user_analysis.comparison,
         proficiency |-> calculate_proficiency_score(user_analysis)]

\* Variant: the analysis writes each user's percentage over the normalized score
\* of the model it was given.
AnalyzeUserPerformance_InPlace ==
    /\ pc = "loaded"
    /\ LET sac == data.metadata.self_assessment.categories
           order == OrderedUsers(DOMAIN data.users)
           faulty == {i \in DOMAIN order : UserFault(data.users[order[i]], sac) # None}
       IN  IF faulty # {}
           THEN /\ raised' = UserFault(data.users[order[CHOOSE i \in faulty :
                                                    \A j \in faulty : i <= j]], sac)
                /\ pc' = "aborted"
                /\ analysis' = analysis
                /\ data' = data
           ELSE /\ analysis' = [u \in DOMAIN data.users |->
                                   UserAnalysis(data.users[u], data.metadata)]
                /\ data' = [data EXCEPT !.users =
                               [u \in DOMAIN data.users |->
                                   [data.users[u] EXCEPT !.total_score.normalized_score =
                                       analysis'[u].total_score.percentage]]]
                /\ pc' = "analyzed"
                /\ raised' = raised
    /\ UNCHANGED <<table, column_mappings, questions_csv, results_csv, self_assessment_csv,
                   questions, quiz_categories, users, overall_stats>>

\* PerformanceAnalyzer(data).analyze_user_performance(): the first user whose
\* loop body raises ends the call.
AnalyzeUserPerformance ==
    /\ pc = "loaded"
    /\ LET sac == data.metadata.self_assessment.categories
           order == OrderedUsers(DOMAIN data.users)
           faulty == {i \in DOMAIN order : UserFault(data.users[order[i]], sac) # None}
       IN  IF faulty # {}
           THEN /\ raised' = UserFault(data.users[order[CHOOSE i \in faulty :
                                                    \A j \in faulty : i <= j]], sac)
                /\ pc' = "aborted"
                /\ analysis' = analysis
           ELSE /\ analysis' = [u \in DOMAIN data.users |->
                                   UserAnalysis(data.users[u], data.metadata)]
                /\ pc' = "analyzed"
                /\ raised' = raised
    /\ UNCHANGED <<table, column_mappings, questions_csv, results_csv, self_assessment_csv,
                   questions, quiz_categories, users, data, overall_stats>>

RECURSIVE Concat(_)
Concat(seqs) == IF seqs = <<>> THEN <<>> ELSE Head(seqs) \o Concat(Tail(seqs))

RECURSIVE RatMinOf(_)
RatMinOf(xs) == IF Len(xs) = 1 THEN xs[1] ELSE RatMin(xs[1], RatMinOf(Tail(xs)))

RECURSIVE RatMaxOf(_)
RatMaxOf(xs) == IF Len(xs) = 1 THEN xs[1] ELSE RatMax(xs[1], RatMaxOf(Tail(xs)))

\* The lists get_overall_statistics collects over the users of an analysis.
AllScores(an) ==
    LET order == OrderedUsers(DOMAIN an)
    IN  Concat([i \in DOMAIN order |-> an[order[i]].mc_quiz.scores])

UserSelfAssessmentAverages(an) ==
    LET rated == SelectSeq(OrderedUsers(DOMAIN an),
                           LAMBDA u : an[u].self_assessment.scores # <<>>)
    IN  [i \in DOMAIN rated |-> an[rated[i]].self_assessment.average]

\* Variant: every user is given the pooled ratios, the bucket counts of all users
\* over the comparison entries of all users.
UserComparisonStats_Pooled(an) ==
    LET with == SelectSeq(OrderedUsers(DOMAIN an),
                          LAMBDA u : an[u].comparison.by_category # <<>>)
        entries == IntSum([i \in DOMAIN with |-> Len(an[with[i]].comparison.by_category)])
        Pooled(count) == Rat(IntSum([i \in DOMAIN with |-> an[with[i]].comparison[count]]),
                             entries)
    IN  [i \in DOMAIN with |->
            [average_difference |-> an[with[i]].comparison.average_difference,
             accurate_ratio |-> Pooled("accurate_count"),
             overestimate_ratio |-> Pooled("overestimate_count"),
             underestimate_ratio |-> Pooled("underestimate_count")]]

UserComparisonStats(an) ==
    LET with == SelectSeq(OrderedUsers(DOMAIN an),
                          LAMBDA u : an[u].comparison.by_category # <<>>)
    IN  [i \in DOMAIN with |->
            LET comparison == an[with[i]].comparison
                n == Len(comparison.by_category)
            IN  [average_difference |-> comparison.average_difference,
                 accurate_ratio |-> Rat(comparison.accurate_count, n),
                 overestimate_ratio |-> Rat(comparison.overestimate_count, n),
                 underestimate_ratio |-> Rat(comparison.underestimate_count, n)]]

\* The value get_overall_statistics returns when its divisions are defined.
OverallStatistics(an) ==
    LET all_scores == AllScores(an)
        user_self_assessment_averages == UserSelfAssessmentAverages(an)
        user_comparison_stats == UserComparisonStats(an)
        num_users == Len(user_comparison_stats)
        Mean(Field(_)) ==
            Round(RatDivInt(RatSum([i \in DOMAIN user_comparison_stats |->
                                       Field(user_comparison_stats[i])]),
                            num_users), 3)
    IN  [quiz_performance |->
             [total_points |-> IntSum([i \in DOMAIN all_scores |-> all_scores[i].points]),
              total_possible |-> IntSum([i \in DOMAIN all_scores |->
                                            all_scores[i].possible]),
              average_percentage |->
                  IF all_scores # <<>>
                  THEN Round(RatDivInt(RatSum([i \in DOMAIN all_scores |->
                                                  all_scores[i].percentage]),
                                       Len(all_scores)), 1)
                  ELSE Zero],
         self_assessment |->
             [average_score |->
                  IF user_self_assessment_averages # <<>>
                  THEN Round(RatDivInt(RatSum(user_self_assessment_averages),
                                       Len(user_self_assessment_averages)), 1)
                  ELSE Zero,
              total_users |-> Len(user_self_assessment_averages),
              min_average |->
                  IF user_self_assessment_averages # <<>>
                  THEN Round(RatMinOf(user_self_assessment_averages), 1)
                  ELSE Zero,
              max_average |->
                  IF user_self_assessment_averages # <<>>
                  THEN Round(RatMaxOf(user_self_assessment_averages), 1)
                  ELSE Zero],
         comparison |->
             [total_users |-> num_users,
              average_difference |-> Mean(LAMBDA stats : stats.average_difference),
              accurate_ratio |-> Mean(LAMBDA stats : stats.accurate_ratio),
              overestimate_ratio |-> Mean(LAMBDA stats : stats.overestimate_ratio),
              underestimate_ratio |-> Mean(LAMBDA stats : stats.underestimate_ratio)]]

\* PerformanceAnalyzer.get_overall_statistics(analysis): comparison_stats divides
\* by num_users, the number of users that have a comparison entry.
GetOverallStatistics ==
    /\ pc = "analyzed"
    /\ IF Len(UserComparisonStats(analysis)) = 0
       THEN /\ raised' = Fault("ZeroDivisionError", "get_overall_statistics")
            /\ pc' = "aborted"
            /\ overall_stats' = overall_stats
       ELSE /\ overall_stats' = OverallStatistics(analysis)
            /\ pc' = "summarized"
            /\ raised' = raised
    /\ UNCHANGED <<table, column_mappings, questions_csv, results_csv, self_assessment_csv,
                   questions, quiz_categories, users, data, analysis>>

\* A second PerformanceAnalyzer(data).analyze_user_performance() and
\* get_overall_statistics(analysis) on the model the first run was given.
AnalyzeAgain ==
    /\ pc = "summarized"
    /\ LET sac == data.metadata.self_assessment.categories
           order == OrderedUsers(DOMAIN data.users)
           faulty == {i \in DOMAIN order : UserFault(data.users[order[i]], sac) # None}
           again == [u \in DOMAIN data.users |->
                        UserAnalysis(data.users[u], data.metadata)]
       IN  IF faulty # {}
           THEN /\ raised' = UserFault(data.users[order[CHOOSE i \in faulty :
                                                    \A j \in faulty : i <= j]], sac)
                /\ pc' = "aborted"
                /\ UNCHANGED <<analysis, overall_stats>>
           ELSE IF Len(UserComparisonStats(again)) = 0
                THEN /\ raised' = Fault("ZeroDivisionError", "get_overall_statistics")
                     /\ pc' = "aborted"
                     /\ analysis' = again
                     /\ overall_stats' = overall_stats
                ELSE /\ analysis' = again
                     /\ overall_stats' = OverallStatistics(again)
                     /\ pc' = "reanalyzed"
                     /\ raised' = raised
    /\ UNCHANGED <<table, column_mappings, questions_csv, results_csv, self_assessment_csv,
                   questions, quiz_categories, users, data>>

\* The interpretation main prints under a comparison entry.
Interpretation(c) ==
    IF FloatLt(FloatAbs(c.difference), Threshold) THEN "accurate"
    ELSE IF FloatGt(c.difference, Zero) THEN "underestimate"
    ELSE "overestimate"

\* The masks behind the shares in the summary text of plot_assessment_accuracy.
SummaryAccurate(c) == ~FloatGt(FloatAbs(c.difference), Threshold)
SummaryOverestimate(c) == FloatLt(c.difference, [n |-> -1, d |-> 10])
SummaryUnderestimate(c) == FloatGt(c.difference, Threshold)

\* --------------------------------------------------------------- callers
\* results['proficiency'][...] and data["proficiency"][...] subscript the
\* proficiency of every user.
SubscriptsNone(an) == \E u \in DOMAIN an : an[u].proficiency = None

\* The per-user report of analyze_results.main, printed after the statistics.
PrintReport ==
    /\ pc = "summarized"
    /\ IF SubscriptsNone(analysis)
       THEN /\ raised' = Fault("TypeError", "main")
            /\ pc' = "aborted"
       ELSE /\ raised' = raised
            /\ pc' = "reported"
    /\ UNCHANGED <<table, column_mappings, questions_csv, results_csv, self_assessment_csv,
                   questions, quiz_categories, users, data, analysis, overall_stats>>

\* A proficiency plot of QuizVisualizer(analysis): the rows are built from every
\* user's proficiency, then drawn.  With no user at all the frame has no
\* columns, and whether the drawing library then raises is left open.
PlotOutcomes(an, plot) ==
    IF SubscriptsNone(an) THEN {Fault("TypeError", plot)}
    ELSE IF DOMAIN an = {} THEN {None, Fault("LibraryError", plot)}
    ELSE {None}

Plot(plot) ==
    /\ pc = "analyzed"
    /\ \E outcome \in PlotOutcomes(analysis, plot) :
        /\ raised' = outcome
        /\ pc' = IF outcome = None THEN "plotted" ELSE "aborted"
    /\ UNCHANGED <<table, column_mappings, questions_csv, results_csv, self_assessment_csv,
                   questions, quiz_categories, users, data, analysis, overall_stats>>

PlotProficiencyDistribution == Plot("plot_proficiency_distribution")

PlotProficiencyCorrelation == Plot("plot_proficiency_correlation")

\* ---------------------------------------------------------------- report
\* stats of generate_category_summary_table on the formatted data that
\* generate_report.main makes of a loaded model: a user's answers are the
\* responses, the points of an answer the points earned and the worth.
CategoryStats(d) ==
    LET all_categories == {d.questions[i].category : i \in DOMAIN d.questions}
                              \ {"no-category"}
    IN  [cat \in all_categories |->
            LET ids == {i \in DOMAIN d.questions : d.questions[i].category = cat}
                Answered(u) == ids \cap DOMAIN d.users[u].responses
                Earned(u) == SumOver(Answered(u), [q \in Answered(u) |->
                                        d.users[u].responses[q].points_earned])
                Possible(u) == SumOver(Answered(u), [q \in Answered(u) |->
                                          d.users[u].responses[q].worth])
            IN  [points_earned |-> SumOver(DOMAIN d.users,
                                           [u \in DOMAIN d.users |-> Earned(u)]),
                 points_possible |-> SumOver(DOMAIN d.users,
                                             [u \in DOMAIN d.users |-> Possible(u)]),
                 users_attempted |-> Cardinality({u \in DOMAIN d.users : Possible(u) > 0}),
                 total_questions |-> Cardinality(ids),
                 worth |-> SumOver(ids, [i \in ids |-> d.questions[i].worth])]]

\* (points_earned / points_possible) * 100, set where points_possible > 0.
Average(cat_stats) == Rat(cat_stats.points_earned * 100, cat_stats.points_possible)

\* sorted(all_categories, key=lambda x: stats[x]["avg"], reverse=True): the
\* order of a set leaves the order of categories of equal average open.
SortedCategories(stats) ==
    {sorted_cats \in [1..Cardinality(DOMAIN stats) -> DOMAIN stats] :
        /\ \A i, j \in DOMAIN sorted_cats : i # j => sorted_cats[i] # sorted_cats[j]
        /\ \A i, j \in DOMAIN sorted_cats :
               i < j => RatLe(Average(stats[sorted_cats[j]]),
                              Average(stats[sorted_cats[i]]))}

\* One row of the table.
SummaryRow(cat, s) ==
    [category |-> cat,
     avg_color |-> IF RatLe(RatInt(80), Average(s)) THEN "green!70!black"
                   ELSE IF RatLe(RatInt(60), Average(s)) THEN "orange!70!black"
                   ELSE "red!70!black",
     avg |-> Round(Average(s), 1),
     points_earned |-> s.points_earned,
     points_possible |-> s.points_possible,
     total_questions |-> s.total_questions,
     users_attempted |-> s.users_attempted]

\* generate_category_summary_table(formatted_data): "avg" is set for the
\* categories with points possible only, and the sort key reads it for all.
GenerateCategorySummaryTable ==
    /\ pc = "loaded"
    /\ LET stats == CategoryStats(data)
       IN  IF \E cat \in DOMAIN stats : stats[cat].points_possible = 0
           THEN /\ raised' = Fault("KeyError", "generate_category_summary_table")
                /\ pc' = "aborted"
                /\ table' = table
           ELSE /\ \E sorted_cats \in SortedCategories(stats) :
                     table' = [i \in DOMAIN sorted_cats |->
                                  SummaryRow(sorted_cats[i], stats[sorted_cats[i]])]
                /\ pc' = "tabulated"
                /\ raised' = raised
    /\ UNCHANGED <<column_mappings, questions_csv, results_csv, self_assessment_csv,
                   questions, quiz_categories, users, data, analysis, overall_stats>>

Next ==
    \/ LoadQuestions
    \/ LoadResponses
    \/ LoadSelfAssessment
    \/ CombineData
    \/ AnalyzeUserPerformance
    \/ GetOverallStatistics
    \/ AnalyzeAgain
    \/ PrintReport
    \/ PlotProficiencyDistribution
    \/ PlotProficiencyCorrelation

\* The percentage runs: a data directory without self_assessment.csv whose bank
\* has worths up to MaxPoints, loaded and analysed.
InitPercent ==
    /\ column_mappings = DefaultMappings
    /\ questions_csv \in PointQuestionFiles(DefaultMappings)
    /\ results_csv = Unread
    /\ self_assessment_csv = NoFile
    /\ pc = "load_questions"
    /\ questions = <<>>
    /\ quiz_categories = {}
    /\ users = <<>>
    /\ data = None
    /\ analysis = None
    /\ overall_stats = None
    /\ raised = None
    /\ table = None

NextAnalyze ==
    \/ LoadQuestions
    \/ LoadResponses
    \/ LoadSelfAssessment
    \/ CombineData
    \/ AnalyzeUserPerformance

SpecPercent == InitPercent /\ [][NextAnalyze]_vars

\* The runs on irregular files: a data directory whose questions.csv has a
\* question without category and whose self_assessment.csv, if there, has an
\* empty rating or a column that is no category, loaded.
InitBlank ==
    /\ column_mappings = DefaultMappings
    /\ questions_csv \in BlankQuestionFiles(DefaultMappings)
    /\ results_csv \in GoodResultFiles(DefaultMappings, questions_csv)
    /\ self_assessment_csv \in
           {NoFile} \cup BlankSelfAssessmentFiles(DefaultMappings, questions_csv,
                                                 results_csv)
    /\ pc = "load_questions"
    /\ questions = <<>>
    /\ quiz_categories = {}
    /\ users = <<>>
    /\ data = None
    /\ analysis = None
    /\ overall_stats = None
    /\ raised = None
    /\ table = None

NextLoad ==
    \/ LoadQuestions
    \/ LoadResponses
    \/ LoadSelfAssessment
    \/ CombineData

SpecBlank == InitBlank /\ [][NextLoad]_vars

\* The statistics runs: get_overall_statistics on the analysis of a model in
\* which the users answered different questions of a bank of two categories, so
\* that they are compared on different numbers of categories.  Every user rated
\* both categories with 0 or 10.
StatsQuestions ==
    [i \in 1..2 |-> [text |-> Texts[i], category |-> CategoryNames[i],
                     correct_answer |-> CorrectAnswer, worth |-> 1]]

StatsRatings == {[n |-> 0, d |-> 1], [n |-> 10, d |-> 1]}

\* A user that answered some of the two questions and rated both categories.
StatsUserChoices ==
    UNION {{[responses |-> [q_id \in ids |->
                               Response([c \in {StatsQuestions[q_id].text} |->
                                            answers[q_id]],
                                        StatsQuestions[q_id], 1)],
             self_assessment |-> [timestamp |-> 1, scores |-> scores]]
               : answers \in [ids -> Answers], scores \in [{"X", "Y"} -> StatsRatings]}
           : ids \in (SUBSET (1..2)) \ {{}}}

StatsUsers ==
    UNION {[U -> StatsUserChoices] : U \in {{UserNames[1]}, {UserNames[1], UserNames[2]}}}

InitStats ==
    /\ column_mappings = DefaultMappings
    /\ questions_csv = Unread
    /\ results_csv = Unread
    /\ self_assessment_csv = Unread
    /\ pc = "loaded"
    /\ questions = StatsQuestions
    /\ quiz_categories = {"X", "Y"}
    /\ \E us \in StatsUsers :
        /\ users = [u \in DOMAIN us |-> CombinedUser(us[u], StatsQuestions)]
        /\ data = [questions |-> StatsQuestions, users |-> users,
                   metadata |-> Metadata(StatsQuestions, users)]
    /\ analysis = None
    /\ overall_stats = None
    /\ raised = None
    /\ table = None

NextStats ==
    \/ AnalyzeUserPerformance
    \/ GetOverallStatistics

SpecStats == InitStats /\ [][NextStats]_vars

\* The reloading runs: load_all_data() called twice on one DataLoader.
NextReload ==
    \/ LoadQuestions
    \/ LoadResponses
    \/ LoadSelfAssessment
    \/ CombineData
    \/ LoadAgain

SpecReload == Init /\ [][NextReload]_vars

\* The report runs: the model is loaded and the category summary table of the
\* report generated from it.
NextReport ==
    \/ LoadQuestions
    \/ LoadResponses
    \/ LoadSelfAssessment
    \/ CombineData
    \/ GenerateCategorySummaryTable

SpecReport == Init /\ [][NextReport]_vars

Spec == Init /\ [][Next]_vars

\* ------------------------------------------------------------ properties
\* The run ended in an exception raised by the function or for the file `where`.
AbortedIn(where) == pc = "aborted" /\ raised # None /\ raised.file \in where

LoaderFiles == {"questions.csv", "results.csv", "self_assessment.csv"}
PlotNames == {"plot_proficiency_distribution", "plot_proficiency_correlation"}

\* No user of the analysis has a comparison entry.
NoComparisonEntries ==
    /\ analysis # None
    /\ \A u \in DOMAIN analysis : analysis[u].comparison.by_category = <<>>

\* C1: get_overall_statistics, given an analysis in which no user has any
\* comparison entry, does not raise a division-by-zero fault, and what it
\* returns has a comparison section of zero users and zero values.
C1_StatisticsWithoutComparisons ==
    NoComparisonEntries =>
        /\ ~AbortedIn({"get_overall_statistics"})
        /\ overall_stats # None =>
               overall_stats.comparison =
                   [total_users |-> 0, average_difference |-> Zero,
                    accurate_ratio |-> Zero, overestimate_ratio |-> Zero,
                    underestimate_ratio |-> Zero]

\* Scenario E: the loaded model has a user u that rated every category of the
\* quiz and answered questions of every one of them, and a user v of the results
\* file without any self-assessment.
ScenarioE(u, v) ==
    /\ data # None
    /\ {u, v} \subseteq DOMAIN data.users
    /\ data.users[u].self_assessment # None
    /\ DOMAIN data.users[u].self_assessment.scores = quiz_categories
    /\ \A k \in DOMAIN data.users[u].score.by_category :
           data.users[u].score.by_category[k].points_possible > 0
    /\ {data.users[u].score.by_category[k].category :
           k \in DOMAIN data.users[u].score.by_category} = quiz_categories
    /\ data.users[v].self_assessment = None

\* C2: in scenario E analyze_user_performance completes for both users, and the
\* self_assessment section of get_overall_statistics is computed over the one
\* user that has self-assessment data.
C2_ScenarioECompletes ==
    \A u, v \in DOMAIN users :
        ScenarioE(u, v) /\ DOMAIN users = {u, v} =>
            /\ ~AbortedIn({"analyze_user_performance"})
            /\ analysis # None => DOMAIN analysis = {u, v}
            /\ overall_stats # None =>
                   /\ overall_stats.self_assessment.total_users = 1
                   /\ overall_stats.self_assessment.average_score =
                          analysis[u].self_assessment.average
                   /\ overall_stats.self_assessment.min_average =
                          analysis[u].self_assessment.average
                   /\ overall_stats.self_assessment.max_average =
                          analysis[u].self_assessment.average

\* C3: when self_assessment.csv is absent the load does not fail and no user of
\* the results file has self-assessment scores; analyze_user_performance on that
\* model does not fail and gives every user an empty comparison.by_category and
\* an absent proficiency.
C3_AbsentSelfAssessmentFile ==
    self_assessment_csv = NoFile =>
        /\ ~AbortedIn(LoaderFiles \cup {"analyze_user_performance"})
        /\ pc # "load_self_assessment"
        /\ DOMAIN users = UsersOf(results_csv, column_mappings)
        /\ \A u \in DOMAIN users : users[u].self_assessment = None
        /\ pc \notin {"combine_data", "aborted"} =>
               /\ data # None
               /\ DOMAIN data.users = UsersOf(results_csv, column_mappings)
               /\ \A u \in DOMAIN data.users : data.users[u].self_assessment = None
        /\ pc \notin {"combine_data", "loaded", "aborted"} => analysis # None
        /\ analysis # None =>
               /\ DOMAIN analysis = UsersOf(results_csv, column_mappings)
               /\ \A u \in DOMAIN analysis :
                      /\ analysis[u].comparison.by_category = <<>>
                      /\ analysis[u].proficiency = None

C3_Witness ==
    /\ self_assessment_csv = NoFile
    /\ analysis # None
    /\ Cardinality(DOMAIN analysis) = 2
    /\ \E u \in DOMAIN analysis : analysis[u].total_score.possible > 0

\* The cell of the last row of results.csv that user u answered question q_id in.
RawAnswer(u, q_id) ==
    LET m == column_mappings
        mine == {i \in DOMAIN results_csv.rows :
                    results_csv.rows[i][Header(m, "user_id")] = u}
        last == CHOOSE i \in mine : \A j \in mine : j <= i
    IN  results_csv.rows[last][questions[q_id].text]

\* C4: every Response the loader created is correct iff the raw answer equals the
\* question's correct answer exactly (a difference in letter case is incorrect),
\* earns the question's worth when correct and 0 otherwise, and carries the
\* worth of the question it refers to.
C4_ResponseScoring ==
    \A u \in DOMAIN users : \A q_id \in DOMAIN users[u].responses :
        LET r == users[u].responses[q_id]
            question == questions[q_id]
        IN  /\ r.answer = RawAnswer(u, q_id)
            /\ r.is_correct <=> RawAnswer(u, q_id) = question.correct_answer
            /\ r.points_earned = IF r.is_correct THEN question.worth ELSE 0
            /\ r.worth = question.worth

C4_Witness ==
    \E u \in DOMAIN users : \E p, q \in DOMAIN users[u].responses :
        /\ users[u].responses[p].answer = "A"
        /\ questions[p].correct_answer = "a"
        /\ questions[p].worth = 1
        /\ ~users[u].responses[p].is_correct
        /\ users[u].responses[q].is_correct
        /\ users[u].responses[q].points_earned = 1

\* C5: for every user of the model load_all_data returned, total_score.
\* points_possible is the sum of worth over that user's recorded responses, and
\* total_score.points_earned is at most total_score.points_possible.
C5_TotalScore ==
    data # None =>
        \A u \in DOMAIN data.users :
            LET responses == data.users[u].responses
                total_score == data.users[u].total_score
            IN  /\ total_score.points_possible =
                       SumOver(DOMAIN responses,
                               [q \in DOMAIN responses |-> responses[q].worth])
                /\ total_score.points_earned <= total_score.points_possible

C5_Witness ==
    /\ data # None
    /\ \E u \in DOMAIN data.users : \E q \in DOMAIN questions :
           /\ q \notin DOMAIN data.users[u].responses
           /\ questions[q].worth > 0
           /\ data.users[u].total_score.points_possible > 0
           /\ data.users[u].total_score.points_earned <
                  data.users[u].total_score.points_possible

\* The computed difference x lies strictly inside (-0.1, 0.1): its exact value
\* does, or its exact value is 0.1 or -0.1 and the float is nearer to zero.
StrictlyWithinThreshold(x) ==
    \/ 10 * Abs(x.n) < x.d
    \/ /\ 10 * Abs(x.n) = x.d
       /\ (x.n > 0 /\ x.dev < 0) \/ (x.n < 0 /\ x.dev > 0)

\* C6: for every comparison entry, difference is quiz_normalized minus
\* self_normalized, and accurate_count counts exactly the entries whose
\* difference is strictly below 0.1 in absolute value: an entry whose
\* difference is 0.1 or -0.1 is not counted.
C6_DifferenceAndAccuracy ==
    analysis # None =>
        \A u \in DOMAIN analysis :
            LET comparison == analysis[u].comparison
                entries == comparison.by_category
            IN  /\ \A i \in DOMAIN entries :
                       LET exact == RatSub(entries[i].quiz_normalized,
                                           entries[i].self_normalized)
                       IN  /\ entries[i].difference.n = exact.n
                           /\ entries[i].difference.d = exact.d
                /\ comparison.accurate_count =
                       Cardinality({i \in DOMAIN entries :
                                       StrictlyWithinThreshold(entries[i].difference)})

C6_Witness ==
    /\ analysis # None
    /\ \E u \in DOMAIN analysis :
           LET entries == analysis[u].comparison.by_category
           IN  /\ Len(entries) = 2
               /\ entries[1].difference = [n |-> -1, d |-> 10, dev |-> 0]
               /\ entries[2].difference = [n |-> 1, d |-> 10, dev |-> -1]
               /\ analysis[u].comparison.accurate_count = 1

\* C7: comparison.by_category of a user has an entry for a category only if the
\* category is in the self-assessed categories of the metadata and the user's
\* points_possible for the category is greater than 0.
C7_ComparisonEntries ==
    analysis # None =>
        \A u \in DOMAIN analysis :
            LET entries == analysis[u].comparison.by_category
                scores == data.users[u].score.by_category
            IN  \A i \in DOMAIN entries :
                    /\ entries[i].category \in data.metadata.self_assessment.categories
                    /\ \E k \in DOMAIN scores :
                           /\ scores[k].category = entries[i].category
                           /\ scores[k].points_possible > 0

C7_Witness ==
    /\ analysis # None
    /\ \E u \in DOMAIN analysis :
           LET entries == analysis[u].comparison.by_category
               scores == data.users[u].score.by_category
           IN  /\ Len(entries) = 1
               /\ Len(scores) = 2
               /\ \E k \in DOMAIN scores :
                      /\ scores[k].points_possible = 0
                      /\ scores[k].category \in data.metadata.self_assessment.categories
                      /\ scores[k].category # entries[1].category

\* C8: in the result of analyze_user_performance a user's proficiency is a
\* computed record iff the user's comparison.by_category has an entry; without
\* an entry it is absent, not a record of zeros.
C8_ProficiencyPresence ==
    analysis # None =>
        \A u \in DOMAIN analysis :
            /\ analysis[u].proficiency # None <=>
                   analysis[u].comparison.by_category # <<>>
            /\ analysis[u].comparison.by_category = <<>> =>
                   analysis[u].proficiency = None

C8_Witness ==
    /\ analysis # None
    /\ \E u \in DOMAIN analysis :
           /\ analysis[u].comparison.by_category = <<>>
           /\ analysis[u].proficiency = None
           /\ analysis[u].total_score.possible > 0
           /\ data.users[u].self_assessment # None

\* C9: the report of analyze_results.main and the proficiency plots of
\* QuizVisualizer raise nothing when a user's proficiency is absent.
C9_AbsentProficiencyHandled ==
    (analysis # None /\ \E u \in DOMAIN analysis : analysis[u].proficiency = None) =>
        ~AbortedIn({"main"} \cup PlotNames)

\* The canonical column k is not in results.csv after the remapping: no header is
\* mapped to it, and the header k itself, if there, is mapped to another name.
ResultsLack(k) ==
    \A h \in results_csv.columns :
        /\ column_mappings[k] # h
        /\ h = k => \E j \in DOMAIN column_mappings : column_mappings[j] = h

\* C10: if results.csv lacks the canonical date_time or user_id column after the
\* remapping, the load fails with an error that names exactly the missing
\* columns, no user has been created and no model is returned.
C10_MissingResultColumns ==
    (results_csv # Unread /\ \E k \in {"date_time", "user_id"} : ResultsLack(k)) =>
        /\ pc = "aborted"
        /\ raised # None
        /\ raised.type = "ValueError"
        /\ raised.file = "results.csv"
        /\ Range(raised.missing_cols) = {k \in {"date_time", "user_id"} : ResultsLack(k)}
        /\ DOMAIN users = {}
        /\ data = None
        /\ analysis = None

C10_Witness ==
    /\ results_csv # Unread
    /\ column_mappings = CustomMappings
    /\ ResultsLack("user_id")
    /\ ~ResultsLack("date_time")
    /\ Len(results_csv.rows) = 1
    /\ pc = "aborted"
    /\ raised.missing_cols = <<"user_id">>

\* self_assessment.csv is there and has been read.
SelfAssessmentRead == self_assessment_csv # Unread /\ self_assessment_csv # NoFile

\* The canonical column k is not in self_assessment.csv after the remapping.
SelfAssessmentLacks(k) ==
    \A h \in self_assessment_csv.columns :
        /\ column_mappings[k] # h
        /\ h = k => \E j \in DOMAIN column_mappings : column_mappings[j] = h

\* C11: if self_assessment.csv exists but lacks the canonical date_time or
\* user_id column, the load fails with an error naming the file and the missing
\* columns; the tolerance for a missing file does not absorb it, and no model is
\* returned.
C11_SelfAssessmentHeader ==
    (SelfAssessmentRead /\ \E k \in {"date_time", "user_id"} : SelfAssessmentLacks(k)) =>
        /\ pc = "aborted"
        /\ raised # None
        /\ raised.type = "ValueError"
        /\ raised.file = "self_assessment.csv"
        /\ Range(raised.missing_cols) =
               {k \in {"date_time", "user_id"} : SelfAssessmentLacks(k)}
        /\ data = None
        /\ analysis = None

C11_Witness ==
    /\ SelfAssessmentRead
    /\ SelfAssessmentLacks("date_time")
    /\ ~SelfAssessmentLacks("user_id")
    /\ DOMAIN users # {}
    /\ pc = "aborted"
    /\ raised.missing_cols = <<"date_time">>

\* The rows of self_assessment.csv (a table with its required columns) for user u.
SelfAssessmentRowsOf(file, u) ==
    {i \in DOMAIN file.rows : file.rows[i][Header(column_mappings, "user_id")] = u}

\* C12: a row of self_assessment.csv whose user_id is not in results.csv is
\* dropped without error.  Reading the file raises nothing for it, creates no
\* user, leaves every user's responses alone and leaves a user without a row of
\* their own as they were; after the load the users are exactly the user ids of
\* results.csv.
C12_UnknownUsersDropped ==
    /\ [][(pc = "load_self_assessment" /\ pc' # "aborted") =>
             /\ DOMAIN users' = DOMAIN users
             /\ \A u \in DOMAIN users :
                    /\ users'[u].responses = users[u].responses
                    /\ (self_assessment_csv' = NoFile
                        \/ SelfAssessmentRowsOf(self_assessment_csv', u) = {}) =>
                           users'[u] = users[u]]_vars
    /\ [][(/\ pc = "load_self_assessment"
           /\ self_assessment_csv' # NoFile
           /\ \A k \in {"date_time", "user_id"} :
                  Header(column_mappings, k) \in self_assessment_csv'.columns) =>
             pc' = "combine_data"]_vars
    /\ [](data # None => DOMAIN data.users = UsersOf(results_csv, column_mappings))

C12_Witness ==
    /\ SelfAssessmentRead
    /\ data # None
    /\ DOMAIN data.users # {}
    /\ SelfAssessmentRowsOf(self_assessment_csv, Stranger) # {}
    /\ \E u \in DOMAIN data.users :
           /\ SelfAssessmentRowsOf(self_assessment_csv, u) # {}
           /\ data.users[u].self_assessment # None

C14_PercentageRoundTrip ==
    analysis # None =>
        \A u \in DOMAIN analysis :
            LET mc_quiz == analysis[u].mc_quiz
                percentage == analysis[u].total_score.percentage
            IN  IF data.users[u].total_score.points_possible > 0
                THEN /\ mc_quiz.total_possible > 0
                     /\ RatLe(RatAbs(RatSub(Rat(mc_quiz.total_points * 100,
                                                mc_quiz.total_possible),
                                            percentage)),
                              [n |-> 1, d |-> 10])
                ELSE /\ mc_quiz.total_points = 0
                     /\ mc_quiz.total_possible = 0
                     /\ percentage = Zero

C14_Witness ==
    /\ analysis # None
    /\ \E u, v \in DOMAIN analysis :
           /\ Len(analysis[u].mc_quiz.scores) = 2
           /\ analysis[u].mc_quiz.total_points = 2
           /\ analysis[u].mc_quiz.total_possible = 3
           /\ analysis[u].total_score.percentage = [n |-> 667, d |-> 10]
           /\ analysis[v].total_score.percentage = [n |-> 333, d |-> 10]

\* C15: every entry of a user's mc_quiz.scores has a percentage of at least 0
\* and at most 100.
C15_PercentageRange ==
    analysis # None =>
        \A u \in DOMAIN analysis :
            \A i \in DOMAIN analysis[u].mc_quiz.scores :
                LET percentage == analysis[u].mc_quiz.scores[i].percentage
                IN  /\ 0 <= percentage.n
                    /\ percentage.n <= 100 * percentage.d

C15_Witness ==
    /\ analysis # None
    /\ \E u, v \in DOMAIN analysis :
           /\ Len(analysis[u].mc_quiz.scores) = 2
           /\ analysis[u].mc_quiz.scores[1].percentage = [n |-> 100, d |-> 1]
           /\ analysis[u].mc_quiz.scores[2].percentage = Zero
           /\ analysis[v].mc_quiz.scores[1].percentage = Zero
           /\ analysis[v].mc_quiz.scores[2].percentage = [n |-> 100, d |-> 1]
           /\ analysis[v].mc_quiz.scores[2].possible = 3

\* The first row of results.csv that carries user u.
FirstRowOf(u) ==
    LET mine == {i \in DOMAIN results_csv.rows :
                    results_csv.rows[i][Header(column_mappings, "user_id")] = u}
    IN  results_csv.rows[CHOOSE i \in mine : \A j \in mine : i <= j]

\* C16: a Response, once created for a user and a question, is not changed by a
\* later step of the load: what the load leaves for the pair is the Response of
\* the first row of results.csv that carries the user, whatever a later row with
\* the same user_id holds.
C16_ResponseImmutable ==
    \A u \in DOMAIN users : \A q_id \in DOMAIN users[u].responses :
        LET r == users[u].responses[q_id]
            row == FirstRowOf(u)
        IN  /\ r.answer = row[questions[q_id].text]
            /\ r.timestamp = row[Header(column_mappings, "date_time")]
            /\ r.is_correct <=> row[questions[q_id].text] = questions[q_id].correct_answer

\* The label the specification gives a question without category.
NoCategory == "no-category"

\* C17: a question whose category cell is empty in questions.csv is loaded with
\* the category "no-category", so every question of the returned model has a text
\* as category and the questions without category share one.
C17_CategorySentinel ==
    data # None =>
        \A q_id \in DOMAIN data.questions :
            LET cell == questions_csv.rows[q_id][Header(column_mappings, "category")]
                category == data.questions[q_id].category
            IN  /\ category \notin NaNCategories
                /\ cell \in NaNCategories => category = NoCategory
                /\ cell \notin NaNCategories => category = cell

\* C18: in the returned model a user's category aggregate has a
\* normalized_self_assessment only if self_assessment.csv has the category as a
\* column and the user's row holds a value in it; an empty cell gives neither a
\* recorded score nor a normalized_self_assessment.
C18_SelfAssessmentOnlyForValues ==
    data # None =>
        \A u \in DOMAIN data.users :
            LET user_data == data.users[u]
                by_category == user_data.score.by_category
            IN  /\ user_data.self_assessment # None =>
                       \A c \in DOMAIN user_data.self_assessment.scores :
                           user_data.self_assessment.scores[c] # NaN
                /\ \A k \in DOMAIN by_category :
                       by_category[k].normalized_self_assessment # None =>
                           /\ SelfAssessmentRead
                           /\ by_category[k].category \in self_assessment_csv.columns
                           /\ \E i \in SelfAssessmentRowsOf(self_assessment_csv, u) :
                                  self_assessment_csv.rows[i][by_category[k].category] # NaN
                           /\ by_category[k].normalized_self_assessment # NaN

\* C19: the metadata has a descriptor for every category of the question bank:
\* question_count and total_points are the number and the summed worth of the
\* category's questions, has_self_assessment holds exactly when some user has a
\* self-assessment value for the category, and self_assessment_max is 10.
C19_CategoryDescriptors ==
    data # None =>
        LET bank == data.questions
            descriptors == data.metadata.categories
        IN  /\ DOMAIN descriptors = {bank[i].category : i \in DOMAIN bank}
            /\ \A c \in DOMAIN descriptors :
                   LET ids == {i \in DOMAIN bank : bank[i].category = c}
                   IN  /\ descriptors[c].question_count = Cardinality(ids)
                       /\ descriptors[c].total_points =
                              SumOver(ids, [i \in ids |-> bank[i].worth])
                       /\ descriptors[c].has_self_assessment <=>
                              \E u \in DOMAIN data.users :
                                  /\ data.users[u].self_assessment # None
                                  /\ c \in DOMAIN data.users[u].self_assessment.scores
                       /\ descriptors[c].self_assessment_max = 10

\* The questions of the bank whose text is not a column of results.csv.
NotAsked == {i \in DOMAIN questions : questions[i].text \notin results_csv.columns}

\* C20: metadata.total_points_possible is the summed worth of all questions of
\* the bank, also of those whose text is not a column of results.csv; such a
\* question gives no user a Response, raises no error and adds nothing to a
\* user's points_possible.
C20_TotalPointsPossible ==
    /\ (results_csv # Unread /\ ~\E k \in {"date_time", "user_id"} : ResultsLack(k)) =>
           /\ ~AbortedIn({"results.csv"})
           /\ \A u \in DOMAIN users : DOMAIN users[u].responses = DOMAIN questions \ NotAsked
    /\ data # None =>
           /\ data.metadata.total_points_possible =
                  IntSum([i \in DOMAIN questions_csv.rows |->
                             questions_csv.rows[i][Header(column_mappings, "value")]])
           /\ \A u \in DOMAIN data.users :
                  LET asked == DOMAIN questions \ NotAsked
                  IN  data.users[u].total_score.points_possible =
                          SumOver(asked, [i \in asked |-> questions[i].worth])

C20_Witness ==
    /\ data # None
    /\ DOMAIN data.users # {}
    /\ \E i \in NotAsked : questions[i].worth > 0
    /\ \E i \in DOMAIN questions : i \notin NotAsked /\ questions[i].worth > 0
    /\ data.metadata.total_points_possible = 2

\* The users of the analysis that have a comparison entry, in order.
UsersCompared == SelectSeq(OrderedUsers(DOMAIN analysis),
                           LAMBDA u : analysis[u].comparison.by_category # <<>>)

\* The share of a user's comparison entries that the count `count` counts.
UserRatio(u, count) ==
    Rat(analysis[u].comparison[count], Len(analysis[u].comparison.by_category))

\* The count `count` of all users over the comparison entries of all users.
PooledRatio(count) ==
    Rat(IntSum([i \in DOMAIN UsersCompared |-> analysis[UsersCompared[i]].comparison[count]]),
        IntSum([i \in DOMAIN UsersCompared |->
                   Len(analysis[UsersCompared[i]].comparison.by_category)]))

MeanUserRatio(count) ==
    Round(RatDivInt(RatSum([i \in DOMAIN UsersCompared |->
                               UserRatio(UsersCompared[i], count)]),
                    Len(UsersCompared)), 3)

\* C21: the accurate, overestimate and underestimate ratios of the overall
\* statistics are each the mean, over the users that have a comparison entry, of
\* the user's own ratio (bucket count over number of entries), rounded to 3
\* decimals, whatever the number of entries of each user.
C21_MeanOfUserRatios ==
    overall_stats # None =>
        /\ overall_stats.comparison.total_users = Len(UsersCompared)
        /\ overall_stats.comparison.accurate_ratio = MeanUserRatio("accurate_count")
        /\ overall_stats.comparison.overestimate_ratio = MeanUserRatio("overestimate_count")
        /\ overall_stats.comparison.underestimate_ratio =
               MeanUserRatio("underestimate_count")

\* Two users compared on different numbers of categories, where the reported
\* accurate ratio is not the pooled one.
C21_Witness ==
    /\ overall_stats # None
    /\ Len(UsersCompared) = 2
    /\ Len(analysis[UsersCompared[1]].comparison.by_category)
           # Len(analysis[UsersCompared[2]].comparison.by_category)
    /\ overall_stats.comparison.accurate_ratio # Round(PooledRatio("accurate_count"), 3)

\* (1 - mean of |difference|) * 100 over the comparison entries of user u.
AccuracyOf(u) ==
    LET by_category == analysis[u].comparison.by_category
    IN  RatMul(RatSub(RatInt(1),
                      RatDivInt(RatSum([i \in DOMAIN by_category |->
                                           RatAbs(by_category[i].difference)]),
                                Len(by_category))),
               RatInt(100))

\* 100 with one comparison entry, else (1 - min(std_dev, 1)) * 100.
ConsistencyOf(u) ==
    IF Len(analysis[u].comparison.by_category) = 1 THEN RatInt(100)
    ELSE RatMul(RatSub(RatInt(1), RatMin(analysis[u].proficiency.std_dev, RatInt(1))),
                RatInt(100))

\* C22: the overall_proficiency of a user with a comparison entry is
\* 0.60 * total quiz percentage + 0.20 * accuracy_score + 0.20 * consistency_score
\* rounded to 1 decimal, where accuracy_score is (1 - mean |difference|) * 100 and
\* consistency_score is 100 when the user has exactly one comparison entry.
C22_ProficiencyFormula ==
    analysis # None =>
        \A u \in DOMAIN analysis :
            analysis[u].proficiency # None =>
                /\ analysis[u].proficiency.accuracy_score = Round(AccuracyOf(u), 1)
                /\ analysis[u].proficiency.consistency_score = Round(ConsistencyOf(u), 1)
                /\ Len(analysis[u].comparison.by_category) = 1 =>
                       analysis[u].proficiency.consistency_score = RatInt(100)
                /\ analysis[u].proficiency.overall_proficiency =
                       Round(RatAdd(RatMul(Rat(3, 5), analysis[u].total_score.percentage),
                                    RatAdd(RatMul(Rat(1, 5), AccuracyOf(u)),
                                           RatMul(Rat(1, 5), ConsistencyOf(u)))), 1)

\* A user with one comparison entry: all points, a rating of 9, proficiency 98.
C22_Witness ==
    /\ analysis # None
    /\ \E u \in DOMAIN analysis :
        /\ analysis[u].proficiency # None
        /\ Len(analysis[u].comparison.by_category) = 1
        /\ analysis[u].total_score.percentage = RatInt(100)
        /\ analysis[u].proficiency.accuracy_score = RatInt(90)
        /\ analysis[u].proficiency.overall_proficiency = RatInt(98)

\* 0 <= x <= 100
WithinPercent(x) == RatLe(Zero, x) /\ RatLe(x, RatInt(100))

\* Every rating the loaded model holds is a number from 0 to 10.
RatingsWithinScale ==
    \A u \in DOMAIN data.users :
        HasScores(data.users[u]) =>
            \A c \in DOMAIN data.users[u].self_assessment.scores :
                LET rating == data.users[u].self_assessment.scores[c]
                IN  rating # NaN /\ RatLe(Zero, rating) /\ RatLe(rating, RatInt(10))

\* C23: when all self-assessment ratings are within 0..10, the
\* overall_proficiency, performance_score, accuracy_score and consistency_score
\* of every user that has a proficiency are each within 0..100.
C23_ProficiencyRange ==
    (analysis # None /\ RatingsWithinScale) =>
        \A u \in DOMAIN analysis :
            analysis[u].proficiency # None =>
                /\ WithinPercent(analysis[u].proficiency.overall_proficiency)
                /\ WithinPercent(analysis[u].proficiency.performance_score)
                /\ WithinPercent(analysis[u].proficiency.accuracy_score)
                /\ WithinPercent(analysis[u].proficiency.consistency_score)

\* A user rated 10 where they earned nothing and 0 where they earned all:
\* accuracy 0 and consistency 0, the low end of the range.
C23_Witness ==
    /\ analysis # None
    /\ RatingsWithinScale
    /\ \E u \in DOMAIN analysis :
        /\ analysis[u].proficiency # None
        /\ analysis[u].proficiency.accuracy_score = Zero
        /\ analysis[u].proficiency.consistency_score = Zero

\* Scenarios A and B: the bank is one question of worth 1, and user u answered it
\* and rated its category: correctly with a rating of 10 (A), or incorrectly
\* with a rating of 0 (B).
ScenarioAB(u, correct) ==
    /\ data # None
    /\ Len(data.questions) = 1
    /\ data.questions[1].worth = 1
    /\ u \in DOMAIN data.users
    /\ DOMAIN data.users[u].responses = {1}
    /\ data.users[u].responses[1].is_correct = correct
    /\ HasScores(data.users[u])
    /\ data.users[u].self_assessment.scores[data.questions[1].category] =
           (IF correct THEN RatInt(10) ELSE Zero)

\* C24: for a user with a single question of worth 1 in one self-assessed
\* category, both when the answer is correct with rating 10 and when it is
\* incorrect with rating 0, the comparison entry has difference 0, is counted as
\* accurate (accurate_count 1, the other counts 0), and accuracy_score is 100.
C24_ScenariosAB ==
    \A u \in Range(UserNames) : \A correct \in BOOLEAN :
        (ScenarioAB(u, correct) /\ analysis # None) =>
            LET comparison == analysis[u].comparison
            IN  /\ Len(comparison.by_category) = 1
                /\ comparison.by_category[1].quiz_normalized =
                       (IF correct THEN RatInt(1) ELSE Zero)
                /\ comparison.by_category[1].self_normalized =
                       comparison.by_category[1].quiz_normalized
                /\ comparison.by_category[1].difference.n = 0
                /\ comparison.accurate_count = 1
                /\ comparison.overestimate_count = 0
                /\ comparison.underestimate_count = 0
                /\ analysis[u].proficiency # None
                /\ analysis[u].proficiency.accuracy_score = RatInt(100)

\* One analysis with a user in scenario A and a user in scenario B.
C24_Witness ==
    /\ analysis # None
    /\ \E u, v \in Range(UserNames) : ScenarioAB(u, TRUE) /\ ScenarioAB(v, FALSE)

\* The table with every header that the mapping of the run gives to a canonical
\* name replaced by that name.
CanonicalHeader(h) ==
    IF \E k \in CanonicalNames : column_mappings[k] = h
    THEN CHOOSE k \in CanonicalNames : column_mappings[k] = h
    ELSE h

CanonicalTable(f) ==
    IF f = NoFile THEN NoFile
    ELSE [columns |-> {CanonicalHeader(h) : h \in f.columns},
          rows |-> [i \in DOMAIN f.rows |->
                       [c \in {CanonicalHeader(h) : h \in f.columns} |->
                           f.rows[i][CHOOSE h \in f.columns : CanonicalHeader(h) = c]]]]

\* C25: loading tables whose headers are the actual names of a column mapping
\* ends as loading the same tables with canonical headers under the identity
\* mapping does: the same model is returned, or the same exception raised.  The
\* renaming reaches each of the three tables.
C25_MappingEquivalence ==
    (pc = "loaded" \/ AbortedIn(LoaderFiles)) =>
        LET identity == LoadAllData(DefaultMappings, CanonicalTable(questions_csv),
                                    CanonicalTable(results_csv),
                                    CanonicalTable(self_assessment_csv), <<>>)
        IN  /\ raised = identity.raised
            /\ data = identity.data

\* A loaded model under the mapping that renames a header of each table.
C25_Witness ==
    /\ pc = "loaded"
    /\ column_mappings = CustomMappings
    /\ "topic" \in questions_csv.columns
    /\ "uid" \in results_csv.columns
    /\ Len(results_csv.rows) = 1
    /\ self_assessment_csv # NoFile
    /\ "uid" \in self_assessment_csv.columns
    /\ \E u \in DOMAIN data.users : HasScores(data.users[u])

\* C28: a second load_all_data on the same DataLoader with unchanged input files
\* returns a model equal to the one the first call returned, and leaves the
\* loader's questions, categories and users as they were: nothing is duplicated,
\* accumulated or lost.
C28_ReloadReturnsEqualModel ==
    [][(pc = "loaded" /\ pc' = "reloaded") =>
               /\ data' = data
               /\ questions' = questions
               /\ quiz_categories' = quiz_categories
               /\ users' = users]_vars

\* A model of two users with responses and ratings, returned a second time.
C28_Witness ==
    /\ pc = "reloaded"
    /\ Len(data.questions) = 2
    /\ Cardinality(DOMAIN data.users) = 2
    /\ \A u \in DOMAIN data.users :
        /\ HasScores(data.users[u])
        /\ data.users[u].total_score.points_possible > 0

\* C26: for every user of the analysis, accurate_count + overestimate_count +
\* underestimate_count is the number of entries of comparison.by_category: every
\* compared category falls in exactly one of the three buckets.
C26_BucketsPartition ==
    analysis # None =>
        \A u \in DOMAIN analysis :
            /\ analysis[u].comparison.accurate_count
                   + analysis[u].comparison.overestimate_count
                   + analysis[u].comparison.underestimate_count
                   = Len(analysis[u].comparison.by_category)
            /\ \A i \in DOMAIN analysis[u].comparison.by_category :
                   LET c == analysis[u].comparison.by_category[i]
                   IN  Cardinality({b \in 1..3 : <<IsAccurate(c), IsOverestimate(c),
                                                  IsUnderestimate(c)>>[b]}) = 1

\* The buckets a comparison entry is in: for the counts of the analyzer, and for
\* the shares of the visualizer's summary.
Buckets(c) ==
    {b \in {"accurate", "overestimate", "underestimate"} :
        \/ b = "accurate" /\ IsAccurate(c)
        \/ b = "overestimate" /\ IsOverestimate(c)
        \/ b = "underestimate" /\ IsUnderestimate(c)}

SummaryBuckets(c) ==
    {b \in {"accurate", "overestimate", "underestimate"} :
        \/ b = "accurate" /\ SummaryAccurate(c)
        \/ b = "overestimate" /\ SummaryOverestimate(c)
        \/ b = "underestimate" /\ SummaryUnderestimate(c)}

\* C27: a comparison entry is classified alike by the bucket counts of the
\* analyzer, by the interpretation main prints for the category and by the
\* summary statistics of the visualizer, whatever the difference, exactly 0.1
\* and exactly -0.1 included.
C27_ClassificationAgrees ==
    analysis # None =>
        \A u \in DOMAIN analysis :
            \A i \in DOMAIN analysis[u].comparison.by_category :
                LET c == analysis[u].comparison.by_category[i]
                IN  /\ Buckets(c) = {Interpretation(c)}
                    /\ SummaryBuckets(c) = {Interpretation(c)}

\* C29: generate_category_summary_table produces a row for every category of the
\* question bank other than "no-category", a category for which no user has a
\* recorded response (points_possible 0) included, and does not fault.
C29_SummaryRowForEveryCategory ==
    /\ ~AbortedIn({"generate_category_summary_table"})
    /\ pc = "tabulated" =>
           /\ {table[i].category : i \in DOMAIN table} =
                  {data.questions[i].category : i \in DOMAIN data.questions}
                      \ {NoCategory}
           /\ \A i, j \in DOMAIN table : table[i].category = table[j].category => i = j

\* C30: in every model load_all_data returns, each category listed in
\* metadata.self_assessment.categories is the category of a question of the
\* bank, and a category descriptor has has_self_assessment true exactly if its
\* category is in that list.
C30_SelfAssessedCategories ==
    data # None =>
        /\ data.metadata.self_assessment.categories \subseteq
               {data.questions[i].category : i \in DOMAIN data.questions}
        /\ \A category \in DOMAIN data.metadata.categories :
               data.metadata.categories[category].has_self_assessment
                   <=> category \in data.metadata.self_assessment.categories

\* A model loaded from a self_assessment.csv that has a row for a user, a column
\* for one category of a bank of two and a column that is no category.
C30_Witness ==
    /\ data # None
    /\ self_assessment_csv # NoFile
    /\ ExtraColumn \in self_assessment_csv.columns
    /\ Cardinality(DOMAIN data.metadata.categories) = 2
    /\ Cardinality(data.metadata.self_assessment.categories) = 1

====
